---- MODULE Spec2Model ----
(***************************************************************************)
(* Model of src/app.py: the per-user conversation store (conversations,    *)
(* get_conversation_history, add_to_conversation) and the three exchange   *)
(* handlers behind the /whatsapp webhook (process_translation_sync,        *)
(* analyze_image_sync, process_voice_memo_sync).                           *)
(*                                                                         *)
(* Python lists are objects: get_conversation_history returns a reference  *)
(* to the stored list, and add_to_conversation replaces the stored list by *)
(* a new one when retention triggers.  The model therefore keeps a heap of *)
(* list objects; conversations[u] and the handlers' locals hold references *)
(* into it.  Each webhook request runs on a thread; a thread's position in *)
(* its handler is pc, its call stack is stack.                             *)
(*                                                                         *)
(* The two numeric constants of the program are scaled down, keeping their *)
(* order (KeepLast + 1 < MAX_MESSAGES_PER_CONVERSATION, as 15 + 1 < 300).  *)
(***************************************************************************)
EXTENDS Integers, Sequences, FiniteSets, TLC

\* ----------------------------------------------------------------- bounds
\* Requests accepted in one behaviour of Spec.
MaxExchanges == 3
\* Requests accepted in one behaviour of SpecConc.
MaxConcExchanges == 2
\* List objects that can be alive at once (stored lists and stale references).
MaxLists == 7

\* ------------------------------------------------------ program constants
\* app.py:40 (300 in the source, scaled).
MAX_MESSAGES_PER_CONVERSATION == 4
\* app.py:137, the 15 of messages[-15:] (scaled).
KeepLast == 2

Users == {"A", "B"}
Threads == {1, 2}
\* Spec runs the webhook one request at a time: only this thread is used.
SeqThreads == {1}
ListIds == 1..MaxLists

\* --------------------------------------------------------------- turns
\* A turn is {"role": ..., "content": ...}; content is abstracted to its kind
\* and the ordinal x of the request (of that user) that produced it.
SystemMsg == [role |-> "system", kind |-> "sys", x |-> 0]
UserTurn(x) == [role |-> "user", kind |-> "text", x |-> x]
\* A faulty placeholder: the multimodal message itself.
PlaceholderIsImage(x) == [role |-> "user", kind |-> "image", x |-> x]
PlaceholderTurn(x) == [role |-> "user", kind |-> "placeholder", x |-> x]
VoiceTurn(x) == [role |-> "user", kind |-> "voice", x |-> x]
TranscriptTurn(x) == [role |-> "user", kind |-> "transcript", x |-> x]
ImageTurn(x) == [role |-> "user", kind |-> "image", x |-> x]
ReplyTurn(x) == [role |-> "assistant", kind |-> "reply", x |-> x]

\* Python's s[-k:] for k > 0: the last k elements, or all of s when it has fewer.
LastK(s, k) == IF k >= Len(s) THEN s ELSE SubSeq(s, Len(s) - k + 1, Len(s))

\* A faulty retention, keeping the oldest turns instead of the newest.
RetainOldest(s) == <<s[1]>> \o SubSeq(s, 2, MAX_MESSAGES_PER_CONVERSATION + 1)

\* add_to_conversation's retention: [system_msg] + messages[-MAX:].
Retain(s) == <<s[1]>> \o LastK(s, MAX_MESSAGES_PER_CONVERSATION)

\* add_to_conversation's test: len(messages) > MAX + 1.
OverCap(s) == Len(s) > MAX_MESSAGES_PER_CONVERSATION + 1

\* A faulty overflow trim, keeping one turn more than KeepLast.
TrimKeepsOneMore(s) == <<s[1]>> \o LastK(s, KeepLast + 1)

\* A faulty overflow trim, slicing before the newest turn.
TrimDropsNewest(s) == <<s[1]>> \o LastK(SubSeq(s, 1, Len(s) - 1), KeepLast)

\* A faulty overflow trim, keeping the oldest turns instead of the newest.
TrimKeepsHead(s) ==
    <<s[1]>> \o SubSeq(s, 2, IF Len(s) - 1 < KeepLast THEN Len(s) ELSE KeepLast + 1)

\* The overflow trim of process_translation_sync: [messages[0]] + messages[-15:].
TrimAggressively(s) == <<s[1]>> \o LastK(s, KeepLast)

\* ------------------------------------------------------- model outcomes
\* What client.chat.completions.create does: it returns, or raises an error
\* whose text may contain "timeout" and may contain "maximum context length".
ModelOutcomes ==
    {[ok |-> TRUE, timeout |-> FALSE, maxctx |-> FALSE]}
    \cup {[ok |-> FALSE, timeout |-> a, maxctx |-> b] : a, b \in BOOLEAN}

\* The except clause's classification, in the order the code tests.
Classify(o) ==
    IF o.timeout THEN "timeout"
    ELSE IF o.maxctx THEN "overflow"
    ELSE "other"

VARIABLES
    conversations,  \* user -> reference of its "messages" list, 0: no session
    last_active,    \* user -> ordinal of the request that last fetched it, 0: none
    heap,           \* list reference -> the list's turns
    started,        \* user -> requests received from that user
    th,             \* thread -> its locals (see IdleThread)
    appended,       \* history: user -> every turn appended for it, in order
    dropped,        \* history: user -> turns an overflow trim evicted
    overlapped      \* history: user -> two of its requests ran at once

vars == <<conversations, last_active, heap, started, th, appended, dropped, overlapped>>

\* A thread's locals.  pc: position; stack: return positions; usr, kind, xid:
\* the request; rv: get_conversation_history's return value; msgs: the
\* handler's messages / updated_messages; am: add_to_conversation's messages;
\* arg: the turn being added; snap: a new list built but not yet stored;
\* fetched: how the media fetch ended; cls1, ok2: how the first call and the
\* retry ended; ncalls: model calls made; ctx1, ctx2: the messages passed to the
\* first call and to the retry; trimmed: the overflow trim ran; retained: an
\* add_to_conversation of this request evicted turns (since the overflow trim,
\* when it ran); tmp: the voice memo's temporary file; reply: the text returned;
\* got: the turns get_conversation_history last returned to this request, <<>>
\* once the request has appended or stored since.
IdleThread ==
    [pc |-> "idle", stack |-> <<>>, usr |-> "A", kind |-> "text", xid |-> 0,
     rv |-> 0, msgs |-> 0, am |-> 0, arg |-> SystemMsg, snap |-> <<>>,
     fetched |-> "none", cls1 |-> "none", ok2 |-> "none", ncalls |-> 0,
     ctx1 |-> <<>>, ctx2 |-> <<>>, trimmed |-> FALSE, retained |-> FALSE,
     tmp |-> "none", reply |-> "none", got |-> <<>>]

Init ==
    /\ conversations = [u \in Users |-> 0]
    /\ last_active = [u \in Users |-> 0]
    /\ heap = [i \in ListIds |-> <<>>]
    /\ started = [u \in Users |-> 0]
    /\ th = [t \in Threads |-> IdleThread]
    /\ appended = [u \in Users |-> <<>>]
    /\ dropped = [u \in Users |-> {}]
    /\ overlapped = [u \in Users |-> FALSE]

\* ------------------------------------------------------------- the heap
Refs(conv, thr) ==
    ({conv[u] : u \in Users}
     \cup {thr[t].rv : t \in Threads}
     \cup {thr[t].msgs : t \in Threads}
     \cup {thr[t].am : t \in Threads}) \ {0}

\* A list no reference reaches is gone (reference counting).
Collect(h, conv, thr) ==
    [i \in ListIds |-> IF i \in Refs(conv, thr) THEN h[i] ELSE <<>>]

\* A faulty list construction: one list object shared by every session.
NewListShared(conv, thr) == 1

\* A new list object: the first free reference.
NewList(conv, thr) ==
    CHOOSE i \in ListIds :
        /\ i \notin Refs(conv, thr)
        /\ \A j \in ListIds : j < i => j \in Refs(conv, thr)

\* The turns stored for user u (<<>> when u has no session).
Sess(u) == IF conversations[u] = 0 THEN <<>> ELSE heap[conversations[u]]

Active(r) == r.pc \notin {"idle", "done"}

TotalStarted == started["A"] + started["B"]

\* --------------------------------------------------- calls and returns
\* return <text>: the handler's locals die with it.
Done(r, text) ==
    [r EXCEPT !.pc = "done", !.stack = <<>>, !.reply = text,
              !.rv = 0, !.msgs = 0, !.am = 0, !.snap = <<>>, !.arg = SystemMsg,
              !.got = <<>>]

\* Call get_conversation_history, continuing at k.
CallGet(r, k) ==
    [r EXCEPT !.pc = "get_check", !.stack = <<k>> \o r.stack, !.rv = 0]

\* Call add_to_conversation(usr, turn.role, turn.content), continuing at k: its
\* first statement is messages = get_conversation_history(phone_number).
CallAdd(r, turn, k) ==
    [r EXCEPT !.pc = "get_check", !.stack = <<"add_append", k>> \o r.stack,
              !.arg = turn, !.rv = 0]

\* Control reaches position k of the running function, r.rv holding the value
\* just returned.  A position that only starts the next call does so at once.
Enter(k, r) ==
    CASE k = "add_append" -> [r EXCEPT !.pc = "add_append", !.am = r.rv, !.rv = 0]
      [] k = "t_add_user" -> CallAdd(r, UserTurn(r.xid), "t_get2")
      [] k = "t_get2" -> CallGet(r, "t_call1")
      [] k = "t_call1" -> [r EXCEPT !.pc = "t_call1", !.msgs = r.rv, !.rv = 0]
      [] k = "i_add_placeholder" ->
            CallAdd([r EXCEPT !.msgs = r.rv], PlaceholderTurn(r.xid), "i_call")
      [] k = "i_call" -> [r EXCEPT !.pc = "i_call"]
      [] k = "v_get" -> CallGet(r, "v_append_raw")
      [] k = "v_append_raw" -> [r EXCEPT !.pc = "v_append_raw", !.msgs = r.rv, !.rv = 0]
      [] k = "v_unlink" -> [r EXCEPT !.pc = "v_unlink"]
      [] OTHER -> Done(r, r.reply)

\* Return from the function on top of the stack.
Return(r) == Enter(Head(r.stack), [r EXCEPT !.stack = Tail(r.stack)])

\* add_to_conversation returns: its locals die.
ReturnFromAdd(r) == Return([r EXCEPT !.am = 0, !.snap = <<>>, !.arg = SystemMsg])

\* One step of thread t: its locals become r, the store conv, the heap h.
Commit(t, r, conv, h) ==
    /\ th' = [th EXCEPT ![t] = r]
    /\ conversations' = conv
    /\ heap' = Collect(h, conv, th')

\* ------------------------------------------------------ whatsapp_reply
Fresh(u, k) == [IdleThread EXCEPT !.usr = u, !.kind = k, !.xid = started[u] + 1]

\* A request from u arrives on thread t, which is free.
Receive(t, u, r, limit) ==
    /\ ~Active(th[t])
    /\ TotalStarted < limit
    /\ started' = [started EXCEPT ![u] = @ + 1]
    /\ overlapped' = [overlapped EXCEPT ![u] =
            @ \/ (Active(r) /\ \E t2 \in Threads \ {t} :
                                  Active(th[t2]) /\ th[t2].usr = u)]
    /\ Commit(t, r, conversations, heap)
    /\ UNCHANGED <<last_active, appended, dropped>>

\* A faulty webhook, without the test of the stripped body.
ReceiveEmptyAsText(t, limit) ==
    \E u \in Users : Receive(t, u, CallGet(Fresh(u, "empty"), "t_add_user"), limit)

\* NumMedia = 0 and Body.strip() is empty.
ReceiveEmpty(t, limit) ==
    \E u \in Users :
        Receive(t, u, Done(Fresh(u, "empty"), "could_not_understand"), limit)

\* NumMedia = 0 and a body: process_translation_sync starts with
\* messages = get_conversation_history(from_number).
ReceiveText(t, limit) ==
    \E u \in Users : Receive(t, u, CallGet(Fresh(u, "text"), "t_add_user"), limit)

ReceiveImage(t, limit) ==
    \E u \in Users : Receive(t, u, [Fresh(u, "image") EXCEPT !.pc = "i_fetch"], limit)

ReceiveVoice(t, limit) ==
    \E u \in Users : Receive(t, u, [Fresh(u, "voice") EXCEPT !.pc = "v_fetch"], limit)

\* Media that is neither audio/ nor image/.
ReceiveUnsupported(t, limit) ==
    \E u \in Users :
        Receive(t, u, Done(Fresh(u, "unsupported"), "unsupported_type"), limit)

\* -------------------------------------------- get_conversation_history
\* A faulty read, which puts the system message into an existing session again
\* on every fetch.
GetCheckReseeds(t) ==
    LET r == th[t]
        seeded == [heap EXCEPT ![conversations[r.usr]] = Append(@, SystemMsg)]
    IN
    /\ r.pc = "get_check"
    /\ IF conversations[r.usr] = 0
       THEN /\ Commit(t, [r EXCEPT !.pc = "get_create"], conversations, heap)
            /\ UNCHANGED last_active
       ELSE /\ last_active' = [last_active EXCEPT ![r.usr] = r.xid]
            /\ Commit(t, Return([r EXCEPT !.rv = conversations[r.usr],
                                          !.got = seeded[conversations[r.usr]]]),
                      conversations, seeded)
    /\ UNCHANGED <<started, appended, dropped, overlapped>>

\* if phone_number not in conversations; when the session exists the rest of
\* the function (last_active, return) runs in the same step.
GetCheck(t) ==
    LET r == th[t] IN
    /\ r.pc = "get_check"
    /\ IF conversations[r.usr] = 0
       THEN /\ Commit(t, [r EXCEPT !.pc = "get_create"], conversations, heap)
            /\ UNCHANGED last_active
       ELSE /\ last_active' = [last_active EXCEPT ![r.usr] = r.xid]
            /\ Commit(t, Return([r EXCEPT !.rv = conversations[r.usr],
                                          !.got = Sess(r.usr)]),
                      conversations, heap)
    /\ UNCHANGED <<started, appended, dropped, overlapped>>

\* conversations[phone_number] = {"messages": [system], "last_active": now}
GetCreate(t) ==
    LET r == th[t]
        id == NewList(conversations, th)
    IN
    /\ r.pc = "get_create"
    /\ last_active' = [last_active EXCEPT ![r.usr] = r.xid]
    /\ Commit(t, [r EXCEPT !.pc = "get_ret"],
              [conversations EXCEPT ![r.usr] = id],
              [heap EXCEPT ![id] = <<SystemMsg>>])
    /\ UNCHANGED <<started, appended, dropped, overlapped>>

\* last_active = now; return conversations[phone_number]["messages"]
GetRet(t) ==
    LET r == th[t] IN
    /\ r.pc = "get_ret"
    /\ last_active' = [last_active EXCEPT ![r.usr] = r.xid]
    /\ Commit(t, Return([r EXCEPT !.rv = conversations[r.usr], !.got = Sess(r.usr)]),
              conversations, heap)
    /\ UNCHANGED <<started, appended, dropped, overlapped>>

\* ------------------------------------------------- add_to_conversation
\* messages.append({"role": role, "content": content})
AddAppend(t) ==
    LET r == th[t] IN
    /\ r.pc = "add_append"
    /\ appended' = [appended EXCEPT ![r.usr] = Append(@, r.arg)]
    /\ Commit(t, [r EXCEPT !.pc = "add_check", !.got = <<>>], conversations,
              [heap EXCEPT ![r.am] = Append(@, r.arg)])
    /\ UNCHANGED <<last_active, started, dropped, overlapped>>

\* if len(messages) > MAX + 1: system_msg = messages[0]; recent = messages[-MAX:]
AddCheck(t) ==
    LET r == th[t] IN
    /\ r.pc = "add_check"
    /\ IF OverCap(heap[r.am])
       THEN Commit(t, [r EXCEPT !.pc = "add_store", !.snap = Retain(heap[r.am])],
                   conversations, heap)
       ELSE Commit(t, ReturnFromAdd(r), conversations, heap)
    /\ UNCHANGED <<last_active, started, appended, dropped, overlapped>>

\* conversations[phone_number]["messages"] = [system_msg] + recent_messages
AddStore(t) ==
    LET r == th[t]
        id == NewList(conversations, th)
    IN
    /\ r.pc = "add_store"
    /\ Commit(t, ReturnFromAdd([r EXCEPT !.retained = TRUE, !.got = <<>>]),
              [conversations EXCEPT ![r.usr] = id],
              [heap EXCEPT ![id] = r.snap])
    /\ UNCHANGED <<last_active, started, appended, dropped, overlapped>>

\* ------------------------------------------- process_translation_sync
\* How a model call's outcome is recorded in the thread.
Called(r, o, context) ==
    [r EXCEPT !.ctx1 = context, !.ncalls = r.ncalls + 1,
              !.cls1 = IF o.ok THEN "ok" ELSE Classify(o)]

\* A faulty handler, which returns the reply without recording it.
AfterTextCallForgets(r, o) ==
    IF o.ok
    THEN Done(r, "model_reply")
    ELSE CASE Classify(o) = "timeout" -> Done(r, "took_too_long")
           [] Classify(o) = "overflow" -> [r EXCEPT !.pc = "t_trim_read", !.msgs = 0]
           [] OTHER -> Done(r, "error_detail")

\* A faulty handler, which trims and retries after any failure.
AfterTextCallRetriesAll(r, o) ==
    IF o.ok
    THEN CallAdd([r EXCEPT !.reply = "model_reply"], ReplyTurn(r.xid), "fin")
    ELSE [r EXCEPT !.pc = "t_trim_read", !.msgs = 0]

\* What the handler does with the first call's outcome o (lines 118-155).
AfterTextCall(r, o) ==
    IF o.ok
    THEN CallAdd([r EXCEPT !.reply = "model_reply"], ReplyTurn(r.xid), "fin")
    ELSE CASE Classify(o) = "timeout" -> Done(r, "took_too_long")
           [] Classify(o) = "overflow" -> [r EXCEPT !.pc = "t_trim_read", !.msgs = 0]
           [] OTHER -> Done(r, "error_detail")

\* client.chat.completions.create(messages=updated_messages, ...)
TextCall(t) ==
    LET r == th[t] IN
    /\ r.pc = "t_call1"
    /\ \E o \in ModelOutcomes :
         Commit(t, AfterTextCall(Called(r, o, heap[r.msgs]), o), conversations, heap)
    /\ UNCHANGED <<last_active, started, appended, dropped, overlapped>>

\* system_msg = conversations[u]["messages"][0]; recent = ...["messages"][-15:]
TextTrimRead(t) ==
    LET r == th[t] IN
    /\ r.pc = "t_trim_read"
    /\ Commit(t, [r EXCEPT !.pc = "t_trim_store", !.snap = TrimAggressively(Sess(r.usr))],
              conversations, heap)
    /\ UNCHANGED <<last_active, started, appended, dropped, overlapped>>

\* conversations[u]["messages"] = [system_msg] + recent_messages
TextTrimStore(t) ==
    LET r == th[t]
        id == NewList(conversations, th)
        old == Sess(r.usr)
        kept == LastK(old, KeepLast)
    IN
    /\ r.pc = "t_trim_store"
    /\ dropped' = [dropped EXCEPT ![r.usr] =
            @ \cup ({old[i] : i \in 2..Len(old)} \ {kept[i] : i \in 1..Len(kept)})]
    /\ Commit(t, [r EXCEPT !.pc = "t_call2", !.snap = <<>>, !.trimmed = TRUE,
                         !.retained = FALSE, !.got = <<>>],
              [conversations EXCEPT ![r.usr] = id],
              [heap EXCEPT ![id] = r.snap])
    /\ UNCHANGED <<last_active, started, appended, overlapped>>

\* A faulty handler, which trims and retries again when the retry fails.
AfterTextRetryAgain(r, o) ==
    IF o.ok
    THEN CallAdd([r EXCEPT !.ok2 = "ok", !.reply = "model_reply"], ReplyTurn(r.xid), "fin")
    ELSE [r EXCEPT !.ok2 = "fail", !.pc = "t_trim_read"]

\* What the handler does with the retry's outcome o (lines 148-153).
AfterTextRetry(r, o) ==
    IF o.ok
    THEN CallAdd([r EXCEPT !.ok2 = "ok", !.reply = "model_reply"], ReplyTurn(r.xid), "fin")
    ELSE Done([r EXCEPT !.ok2 = "fail"], "try_shorter")

\* trimmed_messages = conversations[u]["messages"]; the retry
TextRetry(t) ==
    LET r == th[t] IN
    /\ r.pc = "t_call2"
    /\ \E o \in ModelOutcomes :
         Commit(t, AfterTextRetry([r EXCEPT !.ctx2 = Sess(r.usr), !.ncalls = r.ncalls + 1], o),
                conversations, heap)
    /\ UNCHANGED <<last_active, started, appended, dropped, overlapped>>

\* ------------------------------------------------- analyze_image_sync
\* A faulty handler, which records the placeholder although the fetch failed.
ImageFetchRecords(t) ==
    LET r == th[t] IN
    /\ r.pc = "i_fetch"
    /\ \E fetched \in BOOLEAN :
         Commit(t, IF fetched THEN CallGet([r EXCEPT !.fetched = "ok"], "i_add_placeholder")
                   ELSE CallAdd([r EXCEPT !.fetched = "failed", !.reply = "download_error"],
                                PlaceholderTurn(r.xid), "fin"),
                conversations, heap)
    /\ UNCHANGED <<last_active, started, appended, dropped, overlapped>>

\* requests.get(media_url, ...); response.raise_for_status(); on success
\* messages = get_conversation_history(phone_number)
ImageFetch(t) ==
    LET r == th[t] IN
    /\ r.pc = "i_fetch"
    /\ \E fetched \in BOOLEAN :
         Commit(t, IF fetched THEN CallGet([r EXCEPT !.fetched = "ok"], "i_add_placeholder")
                   ELSE Done([r EXCEPT !.fetched = "failed"], "download_error"),
                conversations, heap)
    /\ UNCHANGED <<last_active, started, appended, dropped, overlapped>>

\* What the handler does with the call's outcome o (lines 211-222).
AfterImageCall(r, o) ==
    IF o.ok
    THEN CallAdd([r EXCEPT !.reply = "model_reply"], ReplyTurn(r.xid), "fin")
    ELSE Done(r, "analysis_error")

\* current_messages = messages + [user_message]; the call
ImageCall(t) ==
    LET r == th[t] IN
    /\ r.pc = "i_call"
    /\ \E o \in ModelOutcomes :
         Commit(t, AfterImageCall(Called(r, o, Append(heap[r.msgs], ImageTurn(r.xid))), o),
                conversations, heap)
    /\ UNCHANGED <<last_active, started, appended, dropped, overlapped>>

\* -------------------------------------------- process_voice_memo_sync
\* requests.get(media_url, ...): no raise_for_status, only a raised error fails
VoiceFetch(t) ==
    LET r == th[t] IN
    /\ r.pc = "v_fetch"
    /\ \E fetched \in BOOLEAN :
         Commit(t, IF fetched THEN [r EXCEPT !.pc = "v_temp", !.fetched = "ok"]
                   ELSE Done([r EXCEPT !.fetched = "failed"], "voice_error"),
                conversations, heap)
    /\ UNCHANGED <<last_active, started, appended, dropped, overlapped>>

\* with tempfile.NamedTemporaryFile(delete=False, ...) as temp_audio:
\*     temp_audio.write(response.content): the file exists once opened; a write
\* that raises leaves the with block, which closes the file, for the outer except.
VoiceTemp(t) ==
    LET r == th[t]
        made == [r EXCEPT !.tmp = "exists"]
    IN
    /\ r.pc = "v_temp"
    /\ \E written \in BOOLEAN :
         Commit(t, IF written THEN [made EXCEPT !.pc = "v_transcribe"]
                   ELSE Done(made, "voice_error"),
                conversations, heap)
    /\ UNCHANGED <<last_active, started, appended, dropped, overlapped>>

\* whisper_model.transcribe(temp_audio_path); on success
\* add_to_conversation(phone_number, "user", "[Nota de voz]: ...")
VoiceTranscribe(t) ==
    LET r == th[t] IN
    /\ r.pc = "v_transcribe"
    /\ \E heard \in BOOLEAN :
         Commit(t, IF heard THEN CallAdd(r, VoiceTurn(r.xid), "v_get")
                   ELSE [r EXCEPT !.pc = "v_unlink", !.reply = "voice_error"],
                conversations, heap)
    /\ UNCHANGED <<last_active, started, appended, dropped, overlapped>>

\* messages.append({"role": "user", "content": transcribed_text}), on the list
\* get_conversation_history returned
VoiceAppendRaw(t) ==
    LET r == th[t] IN
    /\ r.pc = "v_append_raw"
    /\ appended' = [appended EXCEPT ![r.usr] = Append(@, TranscriptTurn(r.xid))]
    /\ Commit(t, [r EXCEPT !.pc = "v_call", !.got = <<>>], conversations,
              [heap EXCEPT ![r.msgs] = Append(@, TranscriptTurn(r.xid))])
    /\ UNCHANGED <<last_active, started, dropped, overlapped>>

\* A faulty handler, whose model failure is caught by no except clause.
AfterVoiceCallEscapes(r, o) ==
    IF o.ok
    THEN CallAdd([r EXCEPT !.reply = "heard_and_reply"], ReplyTurn(r.xid), "v_unlink")
    ELSE [r EXCEPT !.pc = "escaped"]

\* What the handler does with the call's outcome o (lines 256-267).
AfterVoiceCall(r, o) ==
    IF o.ok
    THEN CallAdd([r EXCEPT !.reply = "heard_and_reply"], ReplyTurn(r.xid), "v_unlink")
    ELSE [r EXCEPT !.pc = "v_unlink", !.reply = "voice_error"]

\* client.chat.completions.create(messages=messages, ...)
VoiceCall(t) ==
    LET r == th[t] IN
    /\ r.pc = "v_call"
    /\ \E o \in ModelOutcomes :
         Commit(t, AfterVoiceCall(Called(r, o, heap[r.msgs]), o), conversations, heap)
    /\ UNCHANGED <<last_active, started, appended, dropped, overlapped>>

\* finally: os.unlink(temp_audio_path), then the return or the outer except
VoiceUnlink(t) ==
    LET r == th[t] IN
    /\ r.pc = "v_unlink"
    /\ Commit(t, Done([r EXCEPT !.tmp = "deleted"], r.reply), conversations, heap)
    /\ UNCHANGED <<last_active, started, appended, dropped, overlapped>>

\* ------------------------------------------------------ specifications
Step(t, limit) ==
    \/ ReceiveEmpty(t, limit)
    \/ ReceiveText(t, limit)
    \/ ReceiveImage(t, limit)
    \/ ReceiveVoice(t, limit)
    \/ ReceiveUnsupported(t, limit)
    \/ GetCheck(t)
    \/ GetCreate(t)
    \/ GetRet(t)
    \/ AddAppend(t)
    \/ AddCheck(t)
    \/ AddStore(t)
    \/ TextCall(t)
    \/ TextTrimRead(t)
    \/ TextTrimStore(t)
    \/ TextRetry(t)
    \/ ImageFetch(t)
    \/ ImageCall(t)
    \/ VoiceFetch(t)
    \/ VoiceTemp(t)
    \/ VoiceTranscribe(t)
    \/ VoiceAppendRaw(t)
    \/ VoiceCall(t)
    \/ VoiceUnlink(t)

\* Requests handled one at a time.
Next == \E t \in SeqThreads : Step(t, MaxExchanges)

Spec == Init /\ [][Next]_vars

\* A handler that can take a step takes it: every step is a bounded computation
\* or an external call that returns or raises (the calls carry timeouts).
SpecLive == Spec /\ WF_vars(Next)

\* Requests handled by concurrent threads (Flask's threaded server), switching
\* between any two steps.
NextConc == \E t \in Threads : Step(t, MaxConcExchanges)

SpecConc == Init /\ [][NextConc]_vars

\* ===================================================================
\* Properties
\* ===================================================================
Range(s) == {s[i] : i \in 1..Len(s)}

Last(s) == s[Len(s)]

\* The number of turns of s that are not system turns.
NonSys(s) == Cardinality({i \in 1..Len(s) : s[i].role # "system"})

\* C1: every existing session holds exactly one system turn, at index 0
\* (position 1 of the sequence), in every reachable state.
C1_OneSystemTurnAtIndex0 ==
    \A u \in Users :
        conversations[u] # 0 =>
            /\ Len(Sess(u)) >= 1
            /\ Sess(u)[1].role = "system"
            /\ \A i \in 2..Len(Sess(u)) : Sess(u)[i].role # "system"

\* C2: at the end of every exchange every session holds at most cap + 1 turns.
C2_LengthWithinCap ==
    \A t \in SeqThreads :
        th[t].pc = "done" =>
            \A u \in Users : Len(Sess(u)) <= MAX_MESSAGES_PER_CONVERSATION + 1

\* C3: retention is FIFO.  When add_to_conversation has appended and the session
\* is its first turn followed by t1..tN: if N > cap it goes on to store the first
\* turn followed by exactly the last cap of t1..tN, in order; if N <= cap it
\* returns and the session stays as it is.
C3_RetentionIsFifo ==
    [][\A t \in SeqThreads :
         LET r == th[t]
             s == Sess(r.usr)
             rest == Tail(s)
             N == Len(rest)
         IN
         /\ (r.pc = "add_check" /\ th'[t] # r) =>
                /\ Sess(r.usr)' = s
                /\ (th'[t].pc = "add_store") <=> (N > MAX_MESSAGES_PER_CONVERSATION)
         /\ (r.pc = "add_store" /\ th'[t] # r) =>
                /\ N > MAX_MESSAGES_PER_CONVERSATION
                /\ Sess(r.usr)' =
                      <<s[1]>> \o SubSeq(rest, N - MAX_MESSAGES_PER_CONVERSATION + 1, N)
      ]_vars

\* C3 witness: a session from which retention has evicted its oldest turn and
\* which holds the system turn and the cap newest turns appended.
C3_Witness ==
    \E u \in Users :
        /\ Len(appended[u]) > MAX_MESSAGES_PER_CONVERSATION
        /\ dropped[u] = {}
        /\ appended[u][1] \notin Range(Sess(u))
        /\ Sess(u) = <<SystemMsg>> \o LastK(appended[u], MAX_MESSAGES_PER_CONVERSATION)

\* C4: a text request whose body is empty or blank ends at once with the
\* could-not-understand notice, without a model call, and leaves the whole store
\* (sessions, their turns, last-active) as it was.
C4_EmptyTextLeavesStore ==
    [][\A t \in SeqThreads :
         (th'[t] # th[t] /\ th'[t].kind = "empty") =>
             /\ th'[t].pc = "done"
             /\ th'[t].reply = "could_not_understand"
             /\ th'[t].ncalls = 0
             /\ conversations' = conversations
             /\ heap' = heap
             /\ last_active' = last_active
             /\ appended' = appended
      ]_vars

\* C4 witness: an empty text from a user who has no session has been answered,
\* and that user still has none.
C4_Witness ==
    \E t \in SeqThreads :
        /\ th[t].pc = "done"
        /\ th[t].kind = "empty"
        /\ th[t].reply = "could_not_understand"
        /\ conversations[th[t].usr] = 0
        /\ \E u \in Users : conversations[u] # 0

\* C5: a text exchange makes at most two model calls; the second is made only
\* after a first call classified context-length-exceeded and the aggressive trim,
\* with the trimmed session as its context; an exchange whose first call
\* overflowed ends after exactly two calls, and with the try-shorter notice when
\* the retry failed.
C5_OneRetryAfterOverflow ==
    \A t \in SeqThreads :
        LET r == th[t] IN
        r.kind = "text" =>
            /\ r.ncalls <= 2
            /\ r.ncalls = 2 =>
                  /\ r.cls1 = "overflow"
                  /\ r.trimmed
                  /\ Len(r.ctx2) <= KeepLast + 1
                  /\ Range(r.ctx2) \subseteq Range(r.ctx1)
            /\ (r.pc = "t_call2") => (r.ctx2 = <<>> /\ Sess(r.usr) = TrimAggressively(r.ctx1))
            /\ (r.pc = "done" /\ r.cls1 = "overflow") =>
                  /\ r.ncalls = 2
                  /\ r.ok2 \in {"ok", "fail"}
                  /\ (r.ok2 = "fail") => (r.reply = "try_shorter" /\ Sess(r.usr) = r.ctx2)
            /\ (r.pc = "done" /\ r.cls1 # "overflow") => r.ncalls = 1

\* C5 witness: a text exchange has ended with the try-shorter notice after an
\* overflow, a trim and a failed retry.
C5_Witness ==
    \E t \in SeqThreads :
        /\ th[t].pc = "done"
        /\ th[t].kind = "text"
        /\ th[t].cls1 = "overflow"
        /\ th[t].ok2 = "fail"
        /\ th[t].ncalls = 2
        /\ th[t].reply = "try_shorter"

Min(a, b) == IF a < b THEN a ELSE b

\* C6, as claimed: after a text exchange whose first call overflowed and whose
\* retry, on a trimmed history of KeepLast turns, succeeded, the session holds
\* KeepLast + 2 non-system turns, or fewer only when retention evicted turns
\* after the trim.
C6_CountIsKeepLastPlus2 ==
    \A t \in SeqThreads :
        LET r == th[t] IN
        (/\ r.pc = "done" /\ r.kind = "text" /\ r.cls1 = "overflow" /\ r.ok2 = "ok"
         /\ NonSys(r.ctx2) = KeepLast) =>
            /\ r.reply = "model_reply"
            /\ \/ NonSys(Sess(r.usr)) = KeepLast + 2
               \/ (NonSys(Sess(r.usr)) < KeepLast + 2 /\ r.retained)

\* C6, amended: after such an exchange the reply is the retry's output, recorded
\* as the session's last turn, and the session holds min(n, KeepLast) + 1
\* non-system turns, n being the non-system turns it held at the failing call
\* (the user turn of the exchange among them).
C6_CountIsKeptPlusReply ==
    \A t \in SeqThreads :
        LET r == th[t] IN
        (r.pc = "done" /\ r.kind = "text" /\ r.cls1 = "overflow" /\ r.ok2 = "ok") =>
            /\ r.reply = "model_reply"
            /\ Last(Sess(r.usr)) = ReplyTurn(r.xid)
            /\ NonSys(Sess(r.usr)) = Min(NonSys(r.ctx1), KeepLast) + 1
            /\ ~r.retained

\* C6 witness: such an exchange has ended on a session that held more than
\* KeepLast non-system turns at the failing call and holds KeepLast + 1 now.
C6_Witness ==
    \E t \in SeqThreads :
        /\ th[t].pc = "done"
        /\ th[t].kind = "text"
        /\ th[t].cls1 = "overflow"
        /\ th[t].ok2 = "ok"
        /\ NonSys(th[t].ctx1) > KeepLast
        /\ NonSys(Sess(th[t].usr)) = KeepLast + 1

\* C7: a text model call that fails as timeout or as any error other than
\* context-length-exceeded, and an image model call that fails in any way, end
\* the exchange with an error reply after that one call, and leave every session
\* as it was before the call, its last turn being the user (placeholder) turn of
\* the exchange.
C7_FailedCallEndsExchange ==
    [][\A t \in SeqThreads :
         LET r == th[t]
             q == th'[t]
         IN
         (/\ r.pc \in {"t_call1", "i_call"}
          /\ q # r
          /\ q.cls1 # "ok"
          /\ ~(r.pc = "t_call1" /\ q.cls1 = "overflow")) =>
             /\ q.pc = "done"
             /\ q.ncalls = 1
             /\ ~q.trimmed
             /\ q.reply = (IF r.pc = "i_call" THEN "analysis_error"
                           ELSE IF q.cls1 = "timeout" THEN "took_too_long"
                           ELSE "error_detail")
             /\ conversations' = conversations
             /\ \A u \in Users : Sess(u)' = Sess(u)
             /\ appended' = appended
             /\ Last(Sess(r.usr)) = (IF r.pc = "i_call" THEN PlaceholderTurn(r.xid)
                                     ELSE UserTurn(r.xid))
      ]_vars

\* C7 witness: a text exchange has ended on a timeout, its user turn the last
\* turn of the session.
C7_Witness ==
    \E t \in SeqThreads :
        /\ th[t].pc = "done"
        /\ th[t].kind = "text"
        /\ th[t].cls1 = "timeout"
        /\ th[t].reply = "took_too_long"
        /\ th[t].ncalls = 1
        /\ Last(Sess(th[t].usr)) = UserTurn(th[t].xid)

\* C8, as claimed: an image exchange whose fetch failed has returned the
\* download error, and the session has gained the placeholder user turn and no
\* assistant turn.
C8_PlaceholderRecordedBeforeFetch ==
    \A t \in SeqThreads :
        LET r == th[t] IN
        (r.pc = "done" /\ r.kind = "image" /\ r.fetched = "failed") =>
            /\ r.reply = "download_error"
            /\ conversations[r.usr] # 0
            /\ PlaceholderTurn(r.xid) \in Range(Sess(r.usr))
            /\ ReplyTurn(r.xid) \notin Range(Sess(r.usr))

\* C8, amended: a failed image fetch ends the exchange with the download error,
\* without a model call, and leaves the store as it was: the session gains
\* neither an assistant turn nor the placeholder turn, and none is created.
C8_FailedFetchLeavesStore ==
    [][\A t \in SeqThreads :
         LET r == th[t]
             q == th'[t]
         IN
         (r.kind = "image" /\ q # r /\ q.fetched = "failed") =>
             /\ r.pc = "i_fetch"
             /\ q.pc = "done"
             /\ q.reply = "download_error"
             /\ q.ncalls = 0
             /\ conversations' = conversations
             /\ heap' = heap
             /\ last_active' = last_active
             /\ appended' = appended
             /\ PlaceholderTurn(r.xid) \notin Range(appended[r.usr])
      ]_vars

\* C8 witness: an image exchange has ended on a failed fetch for a user who
\* still has no session.
C8_Witness ==
    \E t \in SeqThreads :
        /\ th[t].pc = "done"
        /\ th[t].kind = "image"
        /\ th[t].fetched = "failed"
        /\ th[t].reply = "download_error"
        /\ conversations[th[t].usr] = 0

\* C9: under any interleaving, the turns of a user's session change only in a
\* step of a thread that is handling a request of that user.
C9_SessionsIsolated ==
    [][\A u \in Users :
         (Sess(u)' # Sess(u)) =>
             \E t \in Threads :
                 /\ th'[t] # th[t]
                 /\ Active(th[t])
                 /\ th[t].usr = u
      ]_vars

\* C9 witness: two requests of different users are being handled at once, both
\* users holding a session with turns of their own.
C9_Witness ==
    /\ Active(th[1])
    /\ Active(th[2])
    /\ th[1].usr # th[2].usr
    /\ \A u \in Users : Len(Sess(u)) >= 2

\* A turn appended for u, among the cap most recent, that no overflow trim
\* evicted and that the stored session does not hold.
Lost(u) ==
    \E m \in Range(LastK(appended[u], MAX_MESSAGES_PER_CONVERSATION)) :
        /\ m \notin dropped[u]
        /\ m \notin Range(Sess(u))

\* C10: an append is lost only when two requests of the same user have been
\* handled at once (and then it can be: C10_Witness).
C10_LostOnlyWhenOverlapped ==
    \A u \in Users : Lost(u) => overlapped[u]

\* C10 witness: a turn one of two concurrent exchanges of a user appended is
\* absent from the stored session although it is among the cap most recent.
C10_Witness ==
    \E u \in Users : Lost(u) /\ overlapped[u] /\ conversations[u] # 0

\* The last two turns of s.
LastTwo(s) == SubSeq(s, Len(s) - 1, Len(s))

\* C11: in a text exchange whose first model call succeeds, the context of that
\* call is the stored session, ending with the user turn of the exchange; when
\* the exchange ends the reply is the model's, the session's last two turns are
\* that user turn and the assistant turn, and a session that did not exist
\* before holds the system turn and these two.
C11_TextSuccessRecordsBoth ==
    [][\A t \in SeqThreads :
         LET r == th[t]
             q == th'[t]
         IN
         /\ (r.pc = "t_call1" /\ q # r) =>
                /\ q.ctx1 = Sess(r.usr)
                /\ Last(q.ctx1) = UserTurn(r.xid)
         /\ (Active(r) /\ q.kind = "text" /\ q.cls1 = "ok" /\ q.pc = "done") =>
                /\ q.reply = "model_reply"
                /\ q.ncalls = 1
                /\ Len(Sess(r.usr)') >= 3
                /\ LastTwo(Sess(r.usr)') = <<UserTurn(r.xid), ReplyTurn(r.xid)>>
                /\ (Len(appended'[r.usr]) = 2) =>
                       Sess(r.usr)' = <<SystemMsg, UserTurn(r.xid), ReplyTurn(r.xid)>>
      ]_vars

\* C11 witness: a first text exchange of a user has ended with the model's
\* reply, and the session holds exactly its two turns after the system turn.
C11_Witness ==
    \E t \in SeqThreads :
        /\ th[t].pc = "done"
        /\ th[t].kind = "text"
        /\ th[t].cls1 = "ok"
        /\ th[t].reply = "model_reply"
        /\ Sess(th[t].usr) = <<SystemMsg, UserTurn(th[t].xid), ReplyTurn(th[t].xid)>>
        /\ NonSys(Sess(th[t].usr)) = 2

\* C12: every exchange, whatever its kind and whatever the fetch, the
\* transcription and the model calls do, ends with a reply, after at most two
\* model calls (one retry).
C12_EveryExchangeEnds ==
    /\ [](\A t \in SeqThreads :
            /\ th[t].ncalls <= 2
            /\ (th[t].pc = "done") => (th[t].reply # "none"))
    /\ \A t \in SeqThreads : (Active(th[t]) ~> (th[t].pc = "done"))

\* C12 witness: a voice exchange whose model call failed has ended with the
\* voice-error reply.
C12_Witness ==
    \E t \in SeqThreads :
        /\ th[t].pc = "done"
        /\ th[t].kind = "voice"
        /\ th[t].cls1 \notin {"none", "ok"}
        /\ th[t].reply = "voice_error"

\* C13: every turn of every list of the store is plain text; the multimodal
\* image turn is the last message of the image exchange's model call and is in
\* no stored list.
C13_StoredTurnsArePlainText ==
    /\ \A i \in ListIds : \A m \in Range(heap[i]) : m.kind # "image"
    /\ \A u \in Users : \A m \in Range(appended[u]) : m.kind # "image"
    /\ \A t \in SeqThreads :
           (th[t].kind = "image" /\ th[t].ncalls = 1) =>
               Last(th[t].ctx1) = ImageTurn(th[t].xid)

\* C13 witness: an image exchange has ended with the model's reply; the call
\* carried the image turn and the session holds the placeholder.
C13_Witness ==
    \E t \in SeqThreads :
        /\ th[t].pc = "done"
        /\ th[t].kind = "image"
        /\ th[t].cls1 = "ok"
        /\ ImageTurn(th[t].xid) \in Range(th[t].ctx1)
        /\ PlaceholderTurn(th[t].xid) \in Range(Sess(th[t].usr))
        /\ ImageTurn(th[t].xid) \notin Range(Sess(th[t].usr))

\* C14: a fetch that follows another fetch of the same request, with no append
\* or store in between, returns the turns the first returned; the fetch that
\* creates the session returns the system turn alone.
C14_ReadIsIdempotent ==
    [][\A t \in SeqThreads :
         LET r == th[t]
             q == th'[t]
         IN
         /\ (r.pc \in {"get_check", "get_ret"} /\ q # r /\ q.pc # "get_create") =>
                /\ q.got = Sess(r.usr)'
                /\ \A u \in Users : conversations[u] # 0 => Sess(u)' = Sess(u)
                /\ (r.got # <<>>) => (q.got = r.got)
         /\ (r.pc = "get_ret" /\ q # r) => q.got = <<SystemMsg>>
      ]_vars

\* C14 witness: in a text exchange the fetch of line 99 created the session and
\* the fetch inside add_to_conversation has returned the same single turn.
C14_Witness ==
    \E t \in SeqThreads :
        /\ th[t].pc = "add_append"
        /\ th[t].kind = "text"
        /\ th[t].arg = UserTurn(th[t].xid)
        /\ th[t].got = <<SystemMsg>>
        /\ Sess(th[t].usr) = <<SystemMsg>>
        /\ appended[th[t].usr] = <<>>

\* C15: a voice exchange treats its model call's outcome as a text exchange
\* does: after context-length-exceeded it has trimmed the session and made a
\* second call, and after a timeout it returns the took-too-long notice.
C15_VoiceHandlesOutcomeAsText ==
    \A t \in SeqThreads :
        LET r == th[t] IN
        (r.pc = "done" /\ r.kind = "voice") =>
            /\ (r.cls1 = "overflow") => (r.trimmed /\ r.ncalls = 2)
            /\ (r.cls1 = "timeout") => (r.reply = "took_too_long" /\ r.ncalls = 1)

\* C16: a successful voice exchange on a session below the cap has added exactly
\* two turns: the voice-annotated user turn and the assistant turn.
C16_VoiceAddsTwoTurns ==
    \A t \in SeqThreads :
        LET r == th[t]
            mine == {i \in 1..Len(Sess(r.usr)) : Sess(r.usr)[i].x = r.xid}
        IN
        (r.pc = "done" /\ r.kind = "voice" /\ r.reply = "heard_and_reply" /\ ~r.retained) =>
            /\ Cardinality(mine) = 2
            /\ LastTwo(Sess(r.usr)) = <<VoiceTurn(r.xid), ReplyTurn(r.xid)>>
            /\ TranscriptTurn(r.xid) \notin Range(Sess(r.usr))

\* C17: when a voice exchange has ended, the temporary file it created is gone.
C17_TempFileRemoved ==
    \A t \in SeqThreads :
        (th[t].pc = "done" /\ th[t].kind = "voice") => th[t].tmp # "exists"

\* C18: the context of an image exchange's model call is the stored session as
\* it stands after the placeholder append and its retention, followed by the
\* image turn (stated where the call has failed, the session being as it was at
\* the call).
C18_ImageContextIsStoredSession ==
    \A t \in SeqThreads :
        LET r == th[t] IN
        (r.pc = "done" /\ r.kind = "image" /\ r.ncalls = 1 /\ r.cls1 # "ok") =>
            /\ r.ctx1 = Append(Sess(r.usr), ImageTurn(r.xid))
            /\ \A m \in Range(r.ctx1) : m = ImageTurn(r.xid) \/ m \in Range(Sess(r.usr))

\* C19: in the overflow recovery of a text exchange the trimmed history passed
\* to the retry ends with the user turn of the exchange, and after a successful
\* retry the stored session is that trimmed history followed directly by the
\* assistant turn.
C19_RetryAnswersCurrentTurn ==
    \A t \in SeqThreads :
        LET r == th[t] IN
        (r.kind = "text" /\ r.ncalls = 2) =>
            /\ r.trimmed
            /\ Last(r.ctx2) = UserTurn(r.xid)
            /\ (r.pc = "done" /\ r.ok2 = "ok") =>
                   /\ Sess(r.usr) = Append(r.ctx2, ReplyTurn(r.xid))
                   /\ LastTwo(Sess(r.usr)) = <<UserTurn(r.xid), ReplyTurn(r.xid)>>

\* C19 witness: a retry has succeeded on a history from which the trim dropped
\* older turns, and the reply stands directly after the user turn.
C19_Witness ==
    \E t \in SeqThreads :
        LET r == th[t] IN
        /\ r.pc = "done"
        /\ r.kind = "text"
        /\ r.ncalls = 2
        /\ r.ok2 = "ok"
        /\ Len(r.ctx2) < Len(r.ctx1)
        /\ Last(r.ctx2) = UserTurn(r.xid)
        /\ Sess(r.usr) = Append(r.ctx2, ReplyTurn(r.xid))
====
